---- MODULE Spec2Model ----
(***************************************************************************)
(* Kubernetes debug-session orchestration (DebugService) with its port     *)
(* resolution strategies and provider registry.                            *)
(*                                                                         *)
(* Strings that the code inspects character by character (ports, address   *)
(* expressions, placeholders) are sequences of one-character strings.  The *)
(* empty sequence stands for null, undefined and "" alike: the code only   *)
(* ever tests these values for truthiness.                                 *)
(*                                                                         *)
(* One action is one run-to-completion step of the JavaScript event loop:  *)
(* the code from the completion of one external operation (a command, a    *)
(* prompt, a subprocess event) to the issue of the next one.               *)
(***************************************************************************)
EXTENDS Integers, Sequences, FiniteSets, TLC

\* ------------------------------------------------------------------ bounds

\* Date.now() takes the values 0..MaxTime.
MaxTime == 1
\* Browser-open actions counted per session (start notifications are unbounded).
MaxOpens == 1
\* Calls of startDebugging counted per session.
MaxAttach == 2
\* Repeated cleanups of one deployed resource name.
MaxDeletes == 3

\* Concurrent invocations of launchDebug/attachDebug on the one DebugService.
Flows == {"f1", "f2"}

\* ----------------------------------------------------------- string values

Null == <<>>

Falsy(s) == s = Null

P5005 == <<"5", "0", "0", "5">>
P9229 == <<"9", "2", "2", "9">>
P5858 == <<"5", "8", "5", "8">>
P9000 == <<"9", "0", "0", "0">>
P8080 == <<"8", "0", "8", "0">>
P3000 == <<"3", "0", "0", "0">>
P8000 == <<"8", "0", "0", "0">>
PZero == <<"0">>
PNeg == <<"-", "1">>
PFrac == <<"3", ".", "5">>
PText == <<"a", "b">>
PVar == <<"$", "{", "P", "}">>
AddrHostPort == <<"h", ":", "5", "0", "0", "5">>

Digits == {"0", "1", "2", "3", "4", "5", "6", "7", "8", "9"}
WordChars == Digits \cup {"a", "b", "h", "P", "_"}

AllDigits(s) == \A i \in 1..Len(s) : s[i] \in Digits

\* s.split(sep): the segments of s between occurrences of the character sep.
RECURSIVE SplitAcc(_, _, _)
SplitAcc(s, sep, cur) ==
    IF s = <<>> THEN <<cur>>
    ELSE IF Head(s) = sep THEN <<cur>> \o SplitAcc(Tail(s), sep, <<>>)
    ELSE SplitAcc(Tail(s), sep, Append(cur, Head(s)))

Split(s, sep) == SplitAcc(s, sep, <<>>)

\* The first segment instead of the last.
FirstOf(segs) == segs[1]

\* addresses[addresses.length - 1]
LastOf(segs) == segs[Len(segs)]

\* Number.isInteger(Number(s)) for s over the characters used here: an
\* optional sign, digits, at most one decimal point whose fraction is zero.
\* Anything else converts to NaN.
NumberIsInteger(s) ==
    LET u == IF s # <<>> /\ Head(s) \in {"-", "+"} THEN Tail(s) ELSE s
        dots == {i \in 1..Len(u) : u[i] = "."}
    IN  IF dots = {}
        THEN u # <<>> /\ AllDigits(u)
        ELSE /\ Cardinality(dots) = 1
             /\ LET d == CHOOSE i \in dots : TRUE
                    ip == SubSeq(u, 1, d - 1)
                    fp == SubSeq(u, d + 1, Len(u))
                IN  /\ AllDigits(ip)
                    /\ AllDigits(fp)
                    /\ Len(ip) + Len(fp) > 0
                    /\ \A i \in 1..Len(fp) : fp[i] = "0"

\* /\$\{?(\w+)\}?/.test(s): a "$", an optional "{", then a word character.
IsPlaceholder(s) ==
    \E i \in 1..Len(s) :
        /\ s[i] = "$"
        /\ \/ (i + 1 <= Len(s) /\ s[i + 1] \in WordChars)
           \/ (i + 2 <= Len(s) /\ s[i + 1] = "{" /\ s[i + 2] \in WordChars)

\* s.match(/\$\{?(\w+)\}?/)[1]: the longest run of word characters after the
\* first "$" (and its optional "{").
RECURSIVE WordRun(_)
WordRun(s) ==
    IF s = <<>> \/ Head(s) \notin WordChars THEN <<>>
    ELSE <<Head(s)>> \o WordRun(Tail(s))

PlaceholderName(s) ==
    LET i == CHOOSE k \in 1..Len(s) :
                 /\ s[k] = "$"
                 /\ \/ (k + 1 <= Len(s) /\ s[k + 1] \in WordChars)
                    \/ (k + 2 <= Len(s) /\ s[k + 1] = "{" /\ s[k + 2] \in WordChars)
                 /\ \A j \in 1..(k - 1) :
                        ~ /\ s[j] = "$"
                          /\ \/ (j + 1 <= Len(s) /\ s[j + 1] \in WordChars)
                             \/ (j + 2 <= Len(s) /\ s[j + 1] = "{" /\ s[j + 2] \in WordChars)
        rest == SubSeq(s, i + 1, Len(s))
    IN  IF rest # <<>> /\ Head(rest) = "{" /\ Len(rest) >= 2 /\ rest[2] \in WordChars
        THEN WordRun(Tail(rest))
        ELSE WordRun(rest)

\* ------------------------------------------------- build instruction source

\* A Dockerfile as its parser exposes it.  image: the keywords contained in
\* the base image identifier.  launch: what the launch instructions hold: the
\* debug flag (jdwp: -agentlib/-Xrunjdwp with address=<addr>; inspect, debug:
\* the node flag, addr being its "=<address>" suffix or empty), and whether
\* they reference the JAVA_OPTS placeholder.  exposed: the EXPOSE ports.
LNone == [flag |-> "none", addr |-> Null, javaOpts |-> FALSE]
LJdwp == [flag |-> "jdwp", addr |-> P5005, javaOpts |-> FALSE]
LJdwpHost == [flag |-> "jdwp", addr |-> AddrHostPort, javaOpts |-> FALSE]
LJdwpAlt == [flag |-> "jdwp", addr |-> P8000, javaOpts |-> FALSE]
LJavaOpts == [flag |-> "none", addr |-> Null, javaOpts |-> TRUE]
LInspect == [flag |-> "inspect", addr |-> Null, javaOpts |-> FALSE]
LDebug == [flag |-> "debug", addr |-> Null, javaOpts |-> FALSE]
LDebugAddr == [flag |-> "debug", addr |-> <<"=", "h", ":", "5", "8", "5", "8">>, javaOpts |-> FALSE]
LJdwpOpts == [flag |-> "jdwp", addr |-> P5005, javaOpts |-> TRUE]
LJdwpLong == [flag |-> "jdwp", addr |-> <<"h", ":", "h", ":">> \o P8000, javaOpts |-> FALSE]
LInspectPort == [flag |-> "inspect", addr |-> <<"=">> \o P8000, javaOpts |-> FALSE]
LInspectLong == [flag |-> "inspect", addr |-> <<"=", "h", ":", "h", ":">> \o P8000,
                 javaOpts |-> FALSE]

ImgJava == {"openjdk"}
ImgNode == {"node"}
ImgOther == {}
ImgBoth == {"openjdk", "node"}

File(i, l, e) == [image |-> i, launch |-> l, exposed |-> e]

NoFile == File(ImgOther, LNone, <<>>)

Dockerfiles ==
    { File(ImgJava, LJdwp, <<P5005, P8080>>),
      File(ImgJava, LJdwpHost, <<P5005>>),
      File(ImgJava, LJavaOpts, <<P8080>>),
      File(ImgJava, LNone, <<P8080>>),
      File(ImgNode, LInspect, <<P9229, PZero>>),
      File(ImgNode, LInspect, <<PNeg>>),
      File(ImgNode, LDebugAddr, <<PFrac>>),
      File(ImgNode, LInspect, <<PText>>),
      File(ImgNode, LInspect, <<PVar>>),
      File(ImgNode, LDebug, <<P5858, P3000, P8080>>),
      File(ImgOther, LInspect, <<P3000>>),
      File(ImgOther, LJdwp, <<P5005, PVar, P8080>>),
      File(ImgNode, LNone, <<>>),
      File(ImgJava, LJdwpAlt, <<P5005, P8080>>),
      File(ImgJava, LJdwpAlt, <<P5005>>),
      File(ImgBoth, LJdwp, <<P5005, P8080>>),
      File(ImgJava, LJdwpLong, <<P8080>>),
      File(ImgJava, LJdwpOpts, <<P8080>>),
      File(ImgJava, LJavaOpts, <<PVar, P8080>>),
      File(ImgNode, LInspectPort, <<P3000>>),
      File(ImgNode, LInspectLong, <<P3000>>) }

\* The Dockerfile of the workspace two concurrent flows are invoked on: its
\* base image is no known one, so that the user picks the provider.
ConcurrentFiles == { File(ImgOther, LInspect, <<P3000>>) }

getBaseImage(d) == d.image

getExposedPorts(d) == d.exposed

\* searchLaunchArgs(javaDebugOptsRegExp): group 2, "address=<addr>", or no match.
SearchJavaDebugOpts(d) ==
    IF d.launch.flag = "jdwp"
    THEN [matched |-> TRUE, g2 |-> <<"a", "d", "d", "r", "e", "s", "s", "=">> \o d.launch.addr]
    ELSE [matched |-> FALSE, g2 |-> Null]

\* searchLaunchArgs(/\$\{?JAVA_OPTS\}?/)
SearchJavaOpts(d) == d.launch.javaOpts

\* searchLaunchArgs(nodeDebugOptsRegExp): group 2 the flag, group 3 "=<address>".
SearchNodeDebugOpts(d) ==
    IF d.launch.flag \in {"inspect", "debug"}
    THEN [matched |-> TRUE, g2 |-> d.launch.flag, g3 |-> d.launch.addr]
    ELSE [matched |-> FALSE, g2 |-> "none", g3 |-> Null]

\* ------------------------------------------------ port resolution strategies

defaultJavaDebugPort == P5005
defaultJavaAppPort == P9000
defaultJavaDebugOpts ==
    <<"-agentlib:jdwp=transport=dt_socket,server=y,suspend=n,address=">>
        \o defaultJavaDebugPort \o <<",quiet=y">>
JavaOptsKey == <<"JAVA_OPTS">>

NoEnv == {}

\* An assignment that leaves the map as it was.
EnvPutNothing(env, key, value) == env

\* env[key] = value on the caller's environment map (a set of <<key, value>>).
EnvPut(env, key, value) == {e \in env : e[1] # key} \cup {<<key, value>>}

Without(ports, excludes) ==
    LET Keep(p) == p \notin excludes
    IN  SelectSeq(ports, Keep)

SeqRange(s) == {s[i] : i \in 1..Len(s)}

\* The values showQuickPick can resolve to: one of the items, or nothing.
QuickPickResults(items) == SeqRange(items) \cup {Null}

\* The application-port half of resolvePortsFromFile, shared by both strategies.
AppPortFromFile(debug, env, dockerExpose, excludes, defaultApp, pick) ==
    IF ~Falsy(debug) /\ Len(dockerExpose) > 0
    THEN LET possiblePorts == Without(dockerExpose, excludes)
         IN  IF Len(possiblePorts) = 1
             THEN [debug |-> debug, app |-> possiblePorts[1], env |-> env]
             ELSE IF Len(possiblePorts) > 1 /\ IsPlaceholder(pick)
             THEN [debug |-> debug, app |-> defaultApp,
                   env |-> EnvPut(env, PlaceholderName(pick), defaultApp)]
             ELSE [debug |-> debug, app |-> Null, env |-> env]
    ELSE [debug |-> debug, app |-> Null, env |-> env]

JavaDebugFromFile(d, env) ==
    LET matches == SearchJavaDebugOpts(d)
    IN  IF matches.matched
        THEN [debug |-> LastOf(Split(Split(matches.g2, "=")[2], ":")), env |-> env]
        ELSE IF SearchJavaOpts(d)
        THEN [debug |-> defaultJavaDebugPort,
              env |-> EnvPut(env, JavaOptsKey, defaultJavaDebugOpts)]
        ELSE [debug |-> Null, env |-> env]

JavaResolvePortsFromFile(d, env, pick) ==
    LET r == JavaDebugFromFile(d, env)
    IN  AppPortFromFile(r.debug, r.env, getExposedPorts(d), {r.debug},
                        defaultJavaAppPort, pick)

NodeDebugFromFile(d) ==
    LET nodeCmd == SearchNodeDebugOpts(d)
    IN  IF nodeCmd.matched
        THEN IF Falsy(nodeCmd.g3)
             THEN (IF nodeCmd.g2 = "inspect" THEN P9229 ELSE P5858)
             ELSE LastOf(Split(Tail(nodeCmd.g3), ":"))
        ELSE Null

NodeResolvePortsFromFile(d, env, pick) ==
    LET debug == NodeDebugFromFile(d)
    IN  AppPortFromFile(debug, env, getExposedPorts(d), {P9229, P5858, debug},
                        P9000, pick)

resolvePortsFromFile(provider, d, env, pick) ==
    IF provider = "java" THEN JavaResolvePortsFromFile(d, env, pick)
    ELSE NodeResolvePortsFromFile(d, env, pick)

\* The items of the application-port prompt; empty when no prompt is shown.
AppPortPrompt(provider, d) ==
    LET debug == IF provider = "java" THEN JavaDebugFromFile(d, NoEnv).debug
                 ELSE NodeDebugFromFile(d)
        excludes == IF provider = "java" THEN {debug} ELSE {P9229, P5858, debug}
        possiblePorts == Without(getExposedPorts(d), excludes)
    IN  IF ~Falsy(debug) /\ Len(possiblePorts) > 1 THEN possiblePorts ELSE <<>>

\* ------------------------------------------------ live-process resolution

\* str.trim() over the characters used here: leading and trailing spaces go.
RECURSIVE TrimLeft(_)
TrimLeft(s) == IF s # <<>> /\ Head(s) = " " THEN TrimLeft(Tail(s)) ELSE s

RECURSIVE TrimRight(_)
TrimRight(s) ==
    IF s # <<>> /\ s[Len(s)] = " " THEN TrimRight(SubSeq(s, 1, Len(s) - 1)) ELSE s

Trim(s) == TrimRight(TrimLeft(s))

\* The words a line of `ps -ef` output splits into on white space.  kind: the
\* text a pattern looks for in the word ("java", "node": the runtime's name;
\* "jdwp": -agentlib:jdwp=...,address=<addr>; "inspect", "debug": the node
\* flag, addr being its "=<address>" suffix or empty; "word": anything else).
Word(kind, addr) == [kind |-> kind, addr |-> addr]

Plain == Word("word", Null)
JavaWord == Word("java", Null)
NodeWord == Word("node", Null)

Header == <<Plain, Plain, Plain>>
BlankLine == <<>>
ShortLine == <<Plain, JavaWord>>
JavaLine(addr) == <<Plain, Plain, JavaWord, Word("jdwp", addr), Plain>>
JavaPathLine(addr) == <<Plain, Plain, Plain, JavaWord, Word("jdwp", addr)>>
NodeLine(flag, addr) == <<Plain, Plain, NodeWord, Word(flag, addr), Plain>>
NodeUserLine == <<Plain, NodeWord, Plain, Word("inspect", Null)>>
IdleLine == <<Plain, Plain, Plain, Plain>>

\* execResult.stdout.split("\n") for the outputs considered.
Listings ==
    { <<Header>>,
      <<BlankLine>>,
      <<Header, IdleLine, BlankLine>>,
      <<Header, ShortLine, JavaLine(P5005), BlankLine>>,
      <<Header, JavaLine(P8000), JavaLine(P5005)>>,
      <<Header, JavaPathLine(P8000), IdleLine, JavaLine(AddrHostPort)>>,
      <<Header, NodeLine("inspect", Null), BlankLine>>,
      <<Header, NodeLine("debug", Null), NodeLine("inspect", Null)>>,
      <<Header, NodeUserLine, NodeLine("debug", <<"=", "h", ":", "8", "0", "0", "0">>)>>,
      <<Header, IdleLine, NodeLine("inspect", <<"=", "8", "0", "0", "0">>),
        NodeLine("debug", Null)>>,
      <<Header, JavaLine(P5005), NodeLine("inspect", <<"=">> \o P5005)>> }

\* The outputs the pods of the workspace two concurrent flows attach to give.
ConcurrentListings ==
    { <<Header>>,
      <<Header, JavaLine(P5005), NodeLine("inspect", <<"=">> \o P5005)>> }

\* line.trim().split(/\s+/): a blank line splits into one empty column.
Columns(line) == IF line = <<>> THEN <<Word("empty", Null)>> ELSE line

\* cols.slice(totalCol - 1, cols.length), to be joined by " ".
CommandOf(cols, totalCol) == SubSeq(cols, totalCol, Len(cols))

\* cmd.match(fullJavaDebugOptsRegExp): the command starts with the word java
\* and a later word holds the jdwp flag; the greedy ".*" takes the last one.
\* The port is the last ":" segment of group 2, "address=<addr>".
JavaFullMatch(cmd) ==
    LET hits == {j \in 2..Len(cmd) : cmd[j].kind = "jdwp"}
    IN  IF Len(cmd) > 0 /\ cmd[1].kind = "java" /\ hits # {}
        THEN LET j == CHOOSE k \in hits : \A m \in hits : m <= k
                 g2 == <<"a", "d", "d", "r", "e", "s", "s", "=">> \o cmd[j].addr
             IN  [matched |-> TRUE, port |-> LastOf(Split(Split(g2, "=")[2], ":"))]
        ELSE [matched |-> FALSE, port |-> Null]

\* A live-process match that knows one default port only.
NodeFullMatchOneDefault(cmd) ==
    LET starts == {i \in 1..Len(cmd) : cmd[i].kind = "node"}
        hits == {j \in 1..Len(cmd) :
                    /\ cmd[j].kind \in {"inspect", "debug"}
                    /\ \E i \in starts : i < j}
    IN  IF hits # {}
        THEN LET j == CHOOSE k \in hits : \A m \in hits : m <= k
                 g4 == cmd[j].addr
             IN  [matched |-> TRUE,
                  port |-> IF Falsy(g4) THEN P9229 ELSE LastOf(Split(Tail(g4), ":"))]
        ELSE [matched |-> FALSE, port |-> Null]

\* cmd.match(fullNodeDebugOptsRegExp): a word node (or nodejs) and a later
\* word holding the flag; the greedy ".*" takes the last one.  Group 3 is the
\* flag, group 4 its "=<address>" suffix.
NodeFullMatch(cmd) ==
    LET starts == {i \in 1..Len(cmd) : cmd[i].kind = "node"}
        hits == {j \in 1..Len(cmd) :
                    /\ cmd[j].kind \in {"inspect", "debug"}
                    /\ \E i \in starts : i < j}
    IN  IF hits # {}
        THEN LET j == CHOOSE k \in hits : \A m \in hits : m <= k
                 g3 == cmd[j].kind
                 g4 == cmd[j].addr
             IN  [matched |-> TRUE,
                  port |-> IF Falsy(g4)
                           THEN (IF g3 = "inspect" THEN P9229 ELSE P5858)
                           ELSE LastOf(Split(Tail(g4), ":"))]
        ELSE [matched |-> FALSE, port |-> Null]

FullMatch(provider, cmd) ==
    IF provider = "java" THEN JavaFullMatch(cmd) ELSE NodeFullMatch(cmd)

\* A scan in which every matching line overrides the port found so far.
RECURSIVE ScanFromLastWins(_, _, _, _)
ScanFromLastWins(provider, ps, totalCol, i) ==
    IF i > Len(ps) THEN Null
    ELSE LET cols == Columns(ps[i])
             rest == ScanFromLastWins(provider, ps, totalCol, i + 1)
         IN  IF Len(cols) < totalCol THEN rest
             ELSE IF FullMatch(provider, CommandOf(cols, totalCol)).matched /\ Falsy(rest)
             THEN FullMatch(provider, CommandOf(cols, totalCol)).port
             ELSE rest

\* The loop over ps[i], i >= 1: short lines are skipped, the first line whose
\* command matches sets the port and ends the loop.
RECURSIVE ScanFrom(_, _, _, _)
ScanFrom(provider, ps, totalCol, i) ==
    IF i > Len(ps) THEN Null
    ELSE LET cols == Columns(ps[i])
         IN  IF Len(cols) < totalCol
             THEN ScanFrom(provider, ps, totalCol, i + 1)
             ELSE IF FullMatch(provider, CommandOf(cols, totalCol)).matched
             THEN FullMatch(provider, CommandOf(cols, totalCol)).port
             ELSE ScanFrom(provider, ps, totalCol, i + 1)

\* The debug port resolvePortsFromPod has after the exec command answered.
ScanProcesses(provider, code, ps) ==
    IF code = 0 THEN ScanFrom(provider, ps, Len(Columns(ps[1])), 2) ELSE Null

\* The containers of the pods considered; undefined when none is selected.
NoContainer == "undefined"
Containers == {"app", "sidecar"}

\* `${container ? "-c ${selectedContainer}" : ""}`: the inner text is a plain
\* string literal, not a template, so the command holds it as written.
execContainerArg(container) ==
    IF container # NoContainer THEN <<"-c", "${selectedContainer}">> ELSE <<>>

\* ------------------------------------------------------- provider registry

NoProvider == "undefined"
supportedProvidersReversed == <<"node", "java">>

supportedProviders == <<"java", "node">>
Providers == SeqRange(supportedProviders)

isSupportedImage(provider, baseImage) ==
    IF provider = "java"
    THEN "java" \in baseImage \/ "openjdk" \in baseImage \/ "oracle" \in baseImage
    ELSE "node" \in baseImage

\* supportedProviders.find(...) when a base image is given, else undefined.
FindProvider(hasImage, baseImage) ==
    LET hits == {i \in 1..Len(supportedProviders) :
                    isSupportedImage(supportedProviders[i], baseImage)}
    IN  IF hasImage /\ hits # {}
        THEN supportedProviders[CHOOSE i \in hits : \A j \in hits : i <= j]
        ELSE NoProvider

\* getDebugProvider: the found provider, else the user's pick (or undefined).
getDebugProvider(hasImage, baseImage, picked) ==
    IF FindProvider(hasImage, baseImage) # NoProvider
    THEN FindProvider(hasImage, baseImage)
    ELSE picked

\* -------------------------------------------------------------- the service

VARIABLES
    workspace,      \* the environment: who invokes the service, on which Dockerfiles
    debugProvider,  \* DebugService.debugProvider: the field all flows share
    dockerParser,   \* DebugService.dockerParser: the Dockerfile last parsed
    cluster,        \* the deployments that exist in the cluster
    session         \* per flow: the locals and closures of launchDebug/attachDebug

vars == <<workspace, debugProvider, dockerParser, cluster, session>>

\* Date.now(): any time; two calls may or may not see the same millisecond.
Times == 0..MaxTime

\* Deployment names are <base>-debug-<time>, attach session names are <time>.
NoName == [kind |-> "none", t |-> 0]
Names == [kind : {"deploy", "ts"}, t : 0..MaxTime]

\* The local ports the port finder can return.  Only their equality and
\* order are ever used.
LocalPorts == {1, 2}

\* portfinder.getPortPromise({port: base}): some free local port >= base.
getPort(base) == {p \in LocalPorts : p >= base}

Statuses == {"Running", "ContainerCreating", "Pending", "Succeeded", "CrashLoopBackOff"}

NoPortInfo == [debug |-> Null, app |-> Null]

InitSession ==
    [ pc |-> "idle", mode |-> "none",
      file |-> NoFile,              \* dockerfilePath: this flow's own Dockerfile
      providerPrompt |-> "pending", \* the provider pick: "shown" or "skipped"
      providerPick |-> NoProvider,  \* what the user picked there
      chosen |-> NoProvider,        \* what getDebugProvider returned to this flow
      checkedWith |-> NoProvider,   \* receiver of isDebuggerInstalled
      resolver |-> NoProvider,      \* receiver of getDockerResolver()
      resFile |-> NoFile,           \* the parser handed to resolvePortsFromFile
      typeWith |-> NoProvider,      \* receiver of getDebuggerType
      attachWith |-> NoProvider,    \* receiver of startDebugging
      appPrompt |-> <<>>,           \* the items of the application-port pick, if shown
      appPick |-> Null,             \* what the user picked there
      targetContainer |-> NoContainer, \* attachDebug's local, until the ports are back
      execArgs |-> <<>>,            \* the container part of the exec command
      portInfo |-> NoPortInfo, containerEnv |-> NoEnv,
      runEnv |-> {},                \* the --env arguments of the run command
      deploymentName |-> NoName, appName |-> NoName,
      issued |-> {}, deleteCount |-> 0, deleted |-> {},
      errors |-> {},
      caught |-> FALSE,             \* the catch block of the flow ran
      proc |-> "none", handlers |-> FALSE,
      proxyAppPort |-> 0, proxyDebugPort |-> 0,
      isStarted |-> FALSE, sessionName |-> NoName,
      listeners |-> {}, listenerRegs |-> 0,
      attachCalls |-> 0, attachOk |-> "none",
      promise |-> "none",
      browserOpens |-> 0,
      ready |-> FALSE ]             \* a chunk matching the pattern was delivered

\* The state after construction: no field is assigned.
Constructed ==
    /\ debugProvider = NoProvider
    /\ dockerParser = NoFile
    /\ cluster = {}
    /\ session = [f \in Flows |-> InitSession]

\* Two concurrent invocations on one workspace, a registry user configured.
Init ==
    /\ workspace = [invokers |-> Flows, files |-> ConcurrentFiles, imageUser |-> TRUE,
                    listings |-> ConcurrentListings]
    /\ Constructed

\* One invocation, on any of the Dockerfiles.
InitSolo ==
    /\ workspace \in [invokers : {{"f1"}}, files : {Dockerfiles}, imageUser : BOOLEAN,
                      listings : {Listings}]
    /\ Constructed

Set(f, s) == session' = [session EXCEPT ![f] = s]

Issue(s, cmd) == [s EXCEPT !.issued = @ \cup {cmd}]

ShowError(s, msg) == [s EXCEPT !.errors = @ \cup {msg}]

\* A deleteResource that lets a non-zero exit code escape as an exception.
deleteResourceThrows(f, s) ==
    LET t == [Issue(s, "delete") EXCEPT !.deleteCount = @ + 1,
                                        !.deleted = @ \cup {s.appName}]
    IN  IF s.appName \in cluster
        THEN cluster' = cluster \ {s.appName} /\ Set(f, t)
        ELSE cluster' = cluster /\ Set(f, [t EXCEPT !.pc = "threw"])

\* deleteResource(`deployment/${appName}`): the command is issued.  It exits
\* with 0 and removes the deployment when that exists; any other exit code is
\* logged and swallowed.
deleteResource(f, s) ==
    LET code == IF s.appName \in cluster THEN 0 ELSE 1
    IN  /\ cluster' = IF code = 0 THEN cluster \ {s.appName} ELSE cluster
        /\ Set(f, [Issue(s, "delete") EXCEPT !.deleteCount = @ + 1,
                                             !.deleted = @ \cup {s.appName}])

\* The catch block of the launch flow (delete what was deployed) and of the
\* attach flow (nothing); the progress callback then returns.
Catch(f, s) ==
    LET t == [s EXCEPT !.pc = "done", !.caught = TRUE]
    IN  IF s.mode = "launch" /\ s.appName # NoName
        THEN deleteResource(f, t)
        ELSE Set(f, t) /\ UNCHANGED cluster

\* An error thrown outside any try block: the flow's promise rejects.
Throw(f, s) == Set(f, [s EXCEPT !.pc = "threw"])

Return(f, s) == Set(f, [s EXCEPT !.pc = "done"])

\* Lines 34-36 of the registry: showProviderPick is called only when no
\* provider was found; the session notes whether it was and what was picked.
ProviderPickSeen(s, hasImage, baseImage, picked) ==
    IF FindProvider(hasImage, baseImage) = NoProvider
    THEN [s EXCEPT !.providerPrompt = "shown", !.providerPick = picked]
    ELSE [s EXCEPT !.providerPrompt = "skipped"]

\* The times already read into a name of this kind ("deploy": deployment
\* names; "ts": session names of attach sessions).
UsedTimes(kind) ==
    {n.t : n \in {m \in {session[g].deploymentName : g \in Flows}
                         \cup {session[g].sessionName : g \in Flows}
                         \cup cluster : m.kind = kind}}

\* Date.now() as read into a name of this kind.  The names are only ever
\* compared for equality, so the reading is a time some name of the kind
\* already holds or, for a time no name holds yet, the least such time.
Now(kind) ==
    LET fresh == Times \ UsedTimes(kind)
    IN  UsedTimes(kind)
            \cup (IF fresh # {} THEN {CHOOSE t \in fresh : \A u \in fresh : t <= u} ELSE {})

\* ----------------------------------------------------------------- launchDebug

\* Lines 27-38: the folder and Dockerfile checks, the parser, and the call of
\* getDebugProvider with the base image.
LaunchStart(f) ==
    /\ session[f].pc = "idle"
    /\ f \in workspace.invokers
    /\ LET s == [session[f] EXCEPT !.mode = "launch"]
       IN  \/ Return(f, s) /\ UNCHANGED dockerParser      \* no workspace folder
           \/ Return(f, ShowError(s, "noDockerfile")) /\ UNCHANGED dockerParser
           \/ \E d \in workspace.files :
                /\ dockerParser' = d
                /\ Set(f, [s EXCEPT !.file = d, !.pc = "getProvider"])
    /\ UNCHANGED <<workspace, debugProvider, cluster>>

\* Lines 38-41: the provider arrives and is stored in the shared field; the
\* tooling check is called on it.
LaunchProviderSelected(f) ==
    /\ session[f].pc = "getProvider"
    /\ session[f].mode = "launch"
    /\ \E picked \in Providers \cup {NoProvider} :
        LET p == getDebugProvider(TRUE, getBaseImage(session[f].file), picked)
            s == ProviderPickSeen(session[f], TRUE, getBaseImage(session[f].file), picked)
        IN  /\ debugProvider' = p
            /\ IF p = NoProvider
               THEN Return(f, s)
               ELSE Set(f, [s EXCEPT !.chosen = p, !.checkedWith = p,
                                     !.pc = "isDebuggerInstalled"])
    /\ UNCHANGED <<workspace, dockerParser, cluster>>

\* Lines 41-48: the tooling check answers; resolvePortsFromFile is called on
\* the resolver of the field's provider with the field's parser.
LaunchDebuggerChecked(f) ==
    /\ session[f].pc = "isDebuggerInstalled"
    /\ session[f].mode = "launch"
    /\ \E installed \in BOOLEAN :
        IF ~installed
        THEN Return(f, session[f])
        ELSE IF debugProvider = NoProvider
        THEN Throw(f, session[f])
        ELSE Set(f, [session[f] EXCEPT !.resolver = debugProvider,
                                       !.resFile = dockerParser,
                                       !.pc = "resolvePortsFromFile"])
    /\ UNCHANGED <<workspace, debugProvider, dockerParser, cluster>>

LaunchPortCheckAppOnly(portInfo) ==
    IF Falsy(portInfo.app) \/ ~NumberIsInteger(portInfo.app) THEN "appPort" ELSE "ok"

\* Lines 49-56: which check of the resolved ports stops the flow.
LaunchPortCheck(portInfo) ==
    IF Falsy(portInfo.debug) THEN "debugPort"
    ELSE IF Falsy(portInfo.app) \/ ~NumberIsInteger(portInfo.app) THEN "appPort"
    ELSE "ok"

\* Lines 48-63: the ports arrive, are checked, and the build is started.
LaunchPortsResolved(f) ==
    /\ session[f].pc = "resolvePortsFromFile"
    /\ \E pick \in QuickPickResults(AppPortPrompt(session[f].resolver, session[f].resFile)) :
        LET r == resolvePortsFromFile(session[f].resolver, session[f].resFile, NoEnv, pick)
            s == [session[f] EXCEPT !.portInfo = [debug |-> r.debug, app |-> r.app],
                                    !.containerEnv = r.env,
                                    !.appPrompt = AppPortPrompt(session[f].resolver,
                                                                session[f].resFile),
                                    !.appPick = pick]
            verdict == LaunchPortCheck(s.portInfo)
        IN  IF verdict # "ok"
            THEN Return(f, ShowError(s, verdict))
            ELSE Set(f, [Issue(s, "build") EXCEPT !.pc = "build"])
    /\ UNCHANGED <<workspace, debugProvider, dockerParser, cluster>>

\* A run command that carries no environment overrides.
envArgsNone(env) == {}

\* Line 284: one --env="key=value" argument per key of the environment map.
envArgs(env) == {<<"--env", e[1], e[2]>> : e \in env}

\* runDockerImageInK8s up to the run command: the name is fixed from the clock.
StartRun(s, t) ==
    [Issue(s, "run") EXCEPT !.deploymentName = [kind |-> "deploy", t |-> t],
                            !.runEnv = envArgs(s.containerEnv),
                            !.pc = "run"]

\* A build step that pushes whenever a registry user is configured.
afterBuildPushAlways(code, user) ==
    IF user THEN "push" ELSE IF code = 0 THEN "run" ELSE "fail"

\* Lines 215-231: what follows the build command's exit code.
afterBuild(code, user) ==
    IF code = 0 THEN (IF user THEN "push" ELSE "run") ELSE "fail"

\* buildDockerImage after the build command answered with this exit code; t
\* is the time runDockerImageInK8s reads when the run command follows.
BuildDone(f, code, t) ==
    /\ session[f].pc = "build"
    /\ IF afterBuild(code, workspace.imageUser) = "fail"
       THEN Catch(f, ShowError(session[f], "build"))
       ELSE IF afterBuild(code, workspace.imageUser) = "push"
       THEN Set(f, [Issue(session[f], "push") EXCEPT !.pc = "push"]) /\ UNCHANGED cluster
       ELSE Set(f, StartRun(session[f], t)) /\ UNCHANGED cluster
    /\ UNCHANGED <<workspace, debugProvider, dockerParser>>

BuildResult(f) == \E code \in {0, 1}, t \in Now("deploy") : BuildDone(f, code, t)

\* Lines 218-225: the push command answered with this exit code.
PushDone(f, code, t) ==
    /\ session[f].pc = "push"
    /\ IF code # 0
       THEN Catch(f, ShowError(session[f], "push"))
       ELSE Set(f, StartRun(session[f], t)) /\ UNCHANGED cluster
    /\ UNCHANGED <<workspace, debugProvider, dockerParser>>

PushResult(f) == \E code \in {0, 1}, t \in Now("deploy") : PushDone(f, code, t)

\* Lines 286-291 and 67-71: the run command answered with this exit code (it
\* cannot succeed for a name that exists); on success the name becomes
\* appName and the pods are queried.
RunDone(f, code) ==
    /\ session[f].pc = "run"
    /\ code = 0 => session[f].deploymentName \notin cluster
    /\ IF code # 0
       THEN Catch(f, ShowError(session[f], "run"))
       ELSE /\ cluster' = cluster \cup {session[f].deploymentName}
            /\ Set(f, [Issue(session[f], "getPodsByLabel") EXCEPT
                          !.appName = session[f].deploymentName,
                          !.pc = "findPods"])
    /\ UNCHANGED <<workspace, debugProvider, dockerParser>>

RunResult(f) == \E code \in {0, 1} : RunDone(f, code)

\* findPods and lines 72-81.
FindPodsResult(f) ==
    /\ session[f].pc = "findPods"
    /\ \E code \in {0, 1}, wellFormed \in BOOLEAN, items \in {0, 1} :
        IF code # 0
        THEN Catch(f, ShowError(session[f], "kubectl"))
        ELSE IF ~wellFormed
        THEN Catch(f, ShowError(session[f], "unexpected"))
        ELSE IF items = 0
        THEN Catch(f, ShowError(session[f], "noPod"))
        ELSE Set(f, [Issue(session[f], "getPod") EXCEPT !.pc = "waitForRunningPod"])
             /\ UNCHANGED cluster
    /\ UNCHANGED <<workspace, debugProvider, dockerParser>>

\* A poll that gives up on a pod that has not been scheduled yet.
waitVerdictImpatient(status) ==
    IF status = "Running" THEN "return"
    ELSE IF status # "ContainerCreating" /\ status # "Succeeded" THEN "fatal"
    ELSE "retry"

\* Lines 317-319: what waitForRunningPod does with the status it read.
waitVerdict(status) ==
    IF status = "Running" THEN "return"
    ELSE IF status # "ContainerCreating" /\ status # "Pending" /\ status # "Succeeded"
    THEN "fatal"
    ELSE "retry"

\* waitForRunningPod after the status query answered with this exit code and
\* status; on Running, createPortForward starts looking for ports.
PodStatus(f, code, status) ==
    /\ session[f].pc = "waitForRunningPod"
    /\ IF code # 0
       THEN Catch(f, ShowError(session[f], "podStatus"))
       ELSE IF waitVerdict(status) = "return"
       THEN Set(f, [session[f] EXCEPT !.pc = "createPortForward"]) /\ UNCHANGED cluster
       ELSE IF waitVerdict(status) = "fatal"
       THEN Set(f, [Issue(ShowError(session[f], "wrongStatus"), "logs") EXCEPT !.pc = "logs"])
            /\ UNCHANGED cluster
       ELSE Set(f, [session[f] EXCEPT !.pc = "sleep"]) /\ UNCHANGED cluster
    /\ UNCHANGED <<workspace, debugProvider, dockerParser>>

PodStatusResult(f) == \E code \in {0, 1}, status \in Statuses : PodStatus(f, code, status)

\* A poll with a single attempt: after the sleep the flow fails.
PollAgainGivesUp(f) ==
    /\ session[f].pc = "sleep"
    /\ Catch(f, session[f])
    /\ UNCHANGED <<workspace, debugProvider, dockerParser>>

\* Lines 328-329: after the sleep the status is queried again.
PollAgain(f) ==
    /\ session[f].pc = "sleep"
    /\ Set(f, [Issue(session[f], "getPod") EXCEPT !.pc = "waitForRunningPod"])
    /\ UNCHANGED <<workspace, debugProvider, dockerParser, cluster>>

\* Lines 322-325: the logs arrive and the poll throws.
LogsResult(f) ==
    /\ session[f].pc = "logs"
    /\ Catch(f, session[f])
    /\ UNCHANGED <<workspace, debugProvider, dockerParser>>

\* ----------------------------------------------------------------- attachDebug

\* Lines 111-116: getDebugProvider() without a base image always prompts.
AttachStart(f) ==
    /\ session[f].pc = "idle"
    /\ f \in workspace.invokers
    /\ \E folder \in BOOLEAN :
        LET s == [session[f] EXCEPT !.mode = "attach"]
        IN  IF ~folder THEN Return(f, s)
            ELSE Set(f, [s EXCEPT !.pc = "getProvider"])
    /\ UNCHANGED <<workspace, debugProvider, dockerParser, cluster>>

\* Lines 116-119.
AttachProviderSelected(f) ==
    /\ session[f].pc = "getProvider"
    /\ session[f].mode = "attach"
    /\ \E picked \in Providers \cup {NoProvider} :
        LET p == getDebugProvider(FALSE, ImgOther, picked)
            s == ProviderPickSeen(session[f], FALSE, ImgOther, picked)
        IN  /\ debugProvider' = p
            /\ IF p = NoProvider
               THEN Return(f, s)
               ELSE Set(f, [s EXCEPT !.chosen = p, !.checkedWith = p,
                                     !.pc = "isDebuggerInstalled"])
    /\ UNCHANGED <<workspace, dockerParser, cluster>>

\* Lines 119-134: the tooling check answers; the pod (given) or the pod list
\* (not given) is queried.
AttachDebuggerChecked(f) ==
    /\ session[f].pc = "isDebuggerInstalled"
    /\ session[f].mode = "attach"
    /\ \E installed \in BOOLEAN, pod \in BOOLEAN :
        IF ~installed
        THEN Return(f, session[f])
        ELSE Set(f, [Issue(session[f], IF pod THEN "getPodJson" ELSE "getPodsJson")
                        EXCEPT !.pc = "getPods"])
    /\ UNCHANGED <<workspace, debugProvider, dockerParser, cluster>>

\* Lines 127-173: the query answers, the pod and the container are picked
\* (a pod with one container has none picked), and resolvePortsFromPod issues
\* the exec command on the resolver of the field's provider.
AttachTargetSelected(f) ==
    /\ session[f].pc = "getPods"
    /\ \E code \in {0, 1}, wellFormed \in BOOLEAN, podPicked \in BOOLEAN,
          containers \in {1, 2}, selectedContainer \in Containers \cup {NoContainer} :
        IF code # 0
        THEN Return(f, ShowError(session[f], "kubectl"))
        ELSE IF ~wellFormed
        THEN Throw(f, session[f])
        ELSE IF "getPodsJson" \in session[f].issued /\ ~podPicked
        THEN Return(f, session[f])
        ELSE IF containers > 1 /\ selectedContainer = NoContainer
        THEN Return(f, session[f])
        ELSE IF debugProvider = NoProvider
        THEN Throw(f, session[f])
        ELSE LET targetContainer == IF containers > 1 THEN selectedContainer
                                    ELSE NoContainer
             IN  Set(f, [Issue(session[f], "exec") EXCEPT
                            !.resolver = debugProvider,
                            !.targetContainer = targetContainer,
                            !.execArgs = execContainerArg(targetContainer),
                            !.pc = "resolvePortsFromPod"])
    /\ UNCHANGED <<workspace, debugProvider, dockerParser, cluster>>

\* resolvePortsFromPod has returned: its locals and the caller's
\* targetContainer, which nothing reads any more, are gone.
Resolved(s) == [s EXCEPT !.targetContainer = NoContainer, !.execArgs = <<>>]

\* resolvePortsFromPod after the exec command answered with this exit code
\* and output: the debug port found in the process list, or the prompt for
\* one (lines 64-89 / 174-202 of the resolvers).
AttachExec(f, code, ps) ==
    /\ session[f].pc = "resolvePortsFromPod"
    /\ LET debug == ScanProcesses(session[f].resolver, code, ps)
       IN  IF Falsy(debug)
           THEN Set(f, [session[f] EXCEPT !.pc = "showInputBox"])
           ELSE Set(f, [Resolved(session[f]) EXCEPT
                           !.portInfo = [debug |-> debug, app |-> Null],
                           !.pc = "createPortForward"])
    /\ UNCHANGED <<workspace, debugProvider, dockerParser, cluster>>

AttachExecResult(f) ==
    \E code \in {0, 1}, ps \in workspace.listings : AttachExec(f, code, ps)

\* A prompt whose answer is taken as typed.
portFromInputUntrimmed(input) == input

\* Lines 93 / 207 of the resolvers: input ? input.trim() : null.
portFromInput(input) == IF ~Falsy(input) THEN Trim(input) ELSE Null

\* What the user can answer the port prompt with: nothing, a port, a port
\* between spaces, a space.
PortInputs == {Null, P5005, <<" ">> \o P5005 \o <<" ">>, <<" ">>}

\* Lines 89-96 / 203-210 of the resolvers and 174-182 of attachDebug: the
\* prompt answers with this input.
AttachPort(f, input) ==
    /\ session[f].pc = "showInputBox"
    /\ LET debug == portFromInput(input)
           s == [Resolved(session[f]) EXCEPT !.portInfo = [debug |-> debug, app |-> Null]]
       IN  IF Falsy(debug)
           THEN Return(f, s)
           ELSE Set(f, [s EXCEPT !.pc = "createPortForward"])
    /\ UNCHANGED <<workspace, debugProvider, dockerParser, cluster>>

AttachPortEntered(f) == \E input \in PortInputs : AttachPort(f, input)

\* ------------------------------------------- createPortForward and startDebug

\* The attach result itself, as a caller that awaited the call would hold it.
startDebuggingAwaited(ok) == [isPromise |-> FALSE, value |-> ok]

\* provider.startDebugging is an async method: what the caller holds is a
\* Promise (of the attach result), not the result.
startDebugging(ok) == [isPromise |-> TRUE, value |-> ok]

\* JavaScript !v: an object is truthy.
Not(v) == ~v.isPromise /\ ~v.value

kill(s) == IF s.proc = "running" THEN [s EXCEPT !.proc = "killed"] ELSE s

disposeLast(s) == [s EXCEPT !.listeners = @ \ {"terminate"}]

\* disposables.forEach((d) => d.dispose())
dispose(s) == [s EXCEPT !.listeners = {}]

\* resolve() / reject() on the startDebug promise; the first call settles it.
settle(s, how) == IF s.promise = "pending" THEN [s EXCEPT !.promise = how] ELSE s

\* A createPortForward that takes the first debug port the finder returns.
createPortForwardNoRetry(appPort) ==
    { [proxyAppPort |-> a, proxyDebugPort |-> d] :
          a \in (IF ~Falsy(appPort) THEN getPort(1) ELSE {0}),
          d \in getPort(1) }

\* Lines 336-349: the local ports createPortForward can end up with.  The
\* debug port is looked for again, above the app port, when it came out equal.
createPortForward(appPort) ==
    UNION { { [proxyAppPort |-> a, proxyDebugPort |-> d2] :
                d2 \in (IF d = a THEN getPort(a + 1) ELSE {d}) } :
            a \in (IF ~Falsy(appPort) THEN getPort(1) ELSE {0}),
            d \in getPort(1) }

\* createPortForward (lines 332-362) and the call of startDebug (lines 88-95,
\* 185-192, 364-416): the ports are found, the subprocess is spawned and its
\* handlers are registered.
PortForwardCreated(f) ==
    /\ session[f].pc = "createPortForward"
    /\ LET s == session[f]
           appPort == IF s.mode = "launch" THEN s.portInfo.app ELSE Null
       IN  \/ Catch(f, s)      \* the port finder found no port
           \/ \E ports \in createPortForward(appPort) :
                LET t == [Issue(s, "portForward") EXCEPT
                             !.proc = "running",
                             !.proxyAppPort = ports.proxyAppPort,
                             !.proxyDebugPort = ports.proxyDebugPort]
                IN  IF debugProvider = NoProvider
                    THEN Catch(f, t)
                    ELSE Set(f, [t EXCEPT !.typeWith = debugProvider, !.handlers = TRUE,
                                          !.promise = "pending", !.pc = "startDebug"])
                         /\ UNCHANGED cluster
    /\ UNCHANGED <<workspace, debugProvider, dockerParser>>

\* What the flow does once the startDebug promise is settled.
Continue(f, s) ==
    IF s.pc # "startDebug" THEN Set(f, s) /\ UNCHANGED cluster
    ELSE IF s.promise = "rejected" THEN Catch(f, s)
    ELSE IF s.promise = "resolved" THEN Return(f, s) /\ UNCHANGED cluster
    ELSE Set(f, s) /\ UNCHANGED cluster

\* A handler that takes any first chunk for the readiness signal.
IsReadySignalAny(s, matches) == ~s.isStarted

\* Line 372: the chunk is the readiness signal when it matches the pattern
\* "Forwarding from 127.0.0.1:" and none was taken before.
IsReadySignal(s, matches) == ~s.isStarted /\ matches

\* Lines 370-403: a chunk on the subprocess's stdout.
ProcStdout(f) ==
    /\ session[f].handlers
    /\ session[f].proc \in {"running", "killed"}
    /\ session[f].attachCalls < MaxAttach
    /\ \E matches \in BOOLEAN :
        LET s == [session[f] EXCEPT !.ready = @ \/ matches]
        IN  IF ~IsReadySignal(s, matches)
            THEN Set(f, s) /\ UNCHANGED cluster
            ELSE \E t \in (IF s.appName # NoName THEN {0} ELSE Now("ts")),
                    ok \in (IF debugProvider = NoProvider THEN {FALSE} ELSE BOOLEAN) :
                LET s1 == [s EXCEPT
                              !.isStarted = TRUE,
                              !.sessionName = IF s.appName # NoName THEN s.appName
                                              ELSE [kind |-> "ts", t |-> t],
                              !.listeners = {"start", "terminate"},
                              !.listenerRegs = @ + 1]
                    s2 == [s1 EXCEPT !.attachCalls = @ + 1,
                                     !.attachWith = debugProvider,
                                     !.attachOk = IF ok THEN "true" ELSE "false"]
                IN  IF debugProvider = NoProvider
                    THEN Set(f, s1) /\ UNCHANGED cluster
                    ELSE IF Not(startDebugging(ok))
                    THEN Continue(f, settle(dispose(kill(s2)), "rejected"))
                    ELSE Continue(f, settle(s2, "resolved"))
    /\ UNCHANGED <<workspace, debugProvider, dockerParser>>

closeDeletesNothing(s) == FALSE

closeDeletesAlways(s) == TRUE

\* Line 412: the close handler deletes the deployment of a launch session.
closeDeletes(s) == s.appName # NoName

\* A close handler that rejects the pending startDebug promise.
closedRejects(s) == settle([s EXCEPT !.isStarted = TRUE], "rejected")

\* Lines 410-411: the close handler marks the session started and resolves.
closed(s) == settle([s EXCEPT !.isStarted = TRUE], "resolved")

\* Lines 409-415: the subprocess closed.  Without handlers (startDebug was
\* never reached) nothing runs.
ProcClose(f) ==
    /\ session[f].proc \in {"running", "killed"}
    /\ LET s == [session[f] EXCEPT !.proc = "closed"]
           t == closed(s)
           u == IF t.pc = "startDebug" THEN [t EXCEPT !.pc = "done"] ELSE t
       IN  IF ~s.handlers
           THEN Set(f, s) /\ UNCHANGED cluster
           ELSE IF closeDeletes(u)
           THEN deleteResource(f, u)
           ELSE Set(f, u) /\ UNCHANGED cluster
    /\ UNCHANGED <<workspace, debugProvider, dockerParser>>

\* Lines 377-385: the listener of onDidStartDebugSession.
onStart(s, name) ==
    IF "start" \in s.listeners /\ s.sessionName = name /\ s.proxyAppPort # 0
    THEN [s EXCEPT !.browserOpens = @ + 1]
    ELSE s

\* Lines 387-392: the listener of onDidTerminateDebugSession.
onTerminate(s, name) ==
    IF "terminate" \in s.listeners /\ s.sessionName = name
    THEN dispose(kill(s))
    ELSE s

\* The session names the host debugger announces: those some listener waits
\* for, and one that is no session of this service.
OtherName == [kind |-> "other", t |-> 0]
EventNames ==
    {session[f].sessionName : f \in {g \in Flows : session[g].listeners # {}}}
        \cup {OtherName}

\* The host debugger announces that a session named `name` started.
HostStart(name) ==
    /\ \A f \in Flows : onStart(session[f], name).browserOpens <= MaxOpens
    /\ session' = [f \in Flows |-> onStart(session[f], name)]
    /\ UNCHANGED <<workspace, debugProvider, dockerParser, cluster>>

\* The host debugger announces that a session named `name` terminated.
HostTerminate(name) ==
    /\ session' = [f \in Flows |-> onTerminate(session[f], name)]
    /\ UNCHANGED <<workspace, debugProvider, dockerParser, cluster>>

Next ==
    \/ \E f \in Flows : LaunchStart(f)
    \/ \E f \in Flows : LaunchProviderSelected(f)
    \/ \E f \in Flows : LaunchDebuggerChecked(f)
    \/ \E f \in Flows : LaunchPortsResolved(f)
    \/ \E f \in Flows : BuildResult(f)
    \/ \E f \in Flows : PushResult(f)
    \/ \E f \in Flows : RunResult(f)
    \/ \E f \in Flows : FindPodsResult(f)
    \/ \E f \in Flows : PodStatusResult(f)
    \/ \E f \in Flows : PollAgain(f)
    \/ \E f \in Flows : LogsResult(f)
    \/ \E f \in Flows : AttachStart(f)
    \/ \E f \in Flows : AttachProviderSelected(f)
    \/ \E f \in Flows : AttachDebuggerChecked(f)
    \/ \E f \in Flows : AttachTargetSelected(f)
    \/ \E f \in Flows : AttachExecResult(f)
    \/ \E f \in Flows : AttachPortEntered(f)
    \/ \E f \in Flows : PortForwardCreated(f)
    \/ \E f \in Flows : ProcStdout(f)
    \/ \E f \in Flows : ProcClose(f)
    \/ \E name \in EventNames : HostStart(name)
    \/ \E name \in EventNames : HostTerminate(name)

Spec == Init /\ [][Next]_vars

SpecSolo == InitSolo /\ [][Next]_vars

\* ------------------------------------------------- resource cleanup, repeated

DeployNames == {n \in Names : n.kind = "deploy"}

\* A launch session right after its run command succeeded with name n
\* (lines 63-71), on the Dockerfile of ConcurrentFiles with the node provider.
DeployedSession(n) ==
    LET d == CHOOSE x \in ConcurrentFiles : TRUE
        r == resolvePortsFromFile("node", d, NoEnv, Null)
    IN  [InitSession EXCEPT
            !.pc = "findPods", !.mode = "launch", !.file = d, !.resFile = d,
            !.providerPrompt = "shown", !.providerPick = "node",
            !.chosen = "node", !.checkedWith = "node", !.resolver = "node",
            !.portInfo = [debug |-> r.debug, app |-> r.app],
            !.containerEnv = r.env, !.runEnv = envArgs(r.env),
            !.deploymentName = n, !.appName = n,
            !.issued = {"build", "push", "run", "getPodsByLabel"}]

\* Sessions that have deployed, in a cluster where each deployment may still
\* exist or be gone already.
InitCleanup ==
    /\ workspace = [invokers |-> Flows, files |-> ConcurrentFiles, imageUser |-> TRUE,
                    listings |-> ConcurrentListings]
    /\ debugProvider = "node"
    /\ dockerParser \in ConcurrentFiles
    /\ cluster \in SUBSET DeployNames
    /\ session \in [Flows -> {DeployedSession(n) : n \in DeployNames}]

\* Lines 100 and 413: deleteResource is called for the session's appName.
Cleanup(f) ==
    /\ session[f].deleteCount < MaxDeletes
    /\ deleteResource(f, session[f])
    /\ UNCHANGED <<workspace, debugProvider, dockerParser>>

NextCleanup == \E f \in Flows : Cleanup(f)

SpecCleanup == InitCleanup /\ [][NextCleanup]_vars

\* ------------------------------------------------------------------ claims

Launch(f) == session[f].mode = "launch"

\* The launch session created a deployment: kubectl run returned its name.
Deployed(f) == Launch(f) /\ session[f].appName # NoName

\* The session has ended: its failure handler ran or its forwarding
\* subprocess closed.
Ended(f) == session[f].caught \/ session[f].proc = "closed"

\* C1: a launch session that deployed a resource issues the delete command
\* for deployment/<its name> at most once at any time and exactly once by the
\* time it has ended (failure handler or close handler, not both); no session
\* issues a delete for any other name, and a session that deployed nothing
\* issues none.
C1_DeleteExactlyOnce ==
    \A f \in Flows :
        /\ session[f].deleteCount <= 1
        /\ Deployed(f) /\ Ended(f) => session[f].deleteCount = 1
        /\ session[f].deleted \subseteq {session[f].appName} \ {NoName}
        /\ session[f].deleteCount = 0 <=> session[f].deleted = {}

C1_Witness ==
    \E f \in Flows :
        /\ Deployed(f)
        /\ session[f].attachCalls = 1
        /\ session[f].proc = "closed"
        /\ session[f].deleteCount = 1
        /\ \E g \in Flows \ {f} : Deployed(g) /\ session[g].caught

\* C2: every provider call a flow makes after its provider selection (the
\* debugger-installed check, port resolution through the provider's resolver,
\* getDebuggerType, startDebugging) is made on the provider that flow
\* selected, whatever other flows select meanwhile.
C2_OwnProvider ==
    \A f \in Flows :
        /\ session[f].checkedWith # NoProvider => session[f].checkedWith = session[f].chosen
        /\ session[f].resolver # NoProvider => session[f].resolver = session[f].chosen
        /\ session[f].typeWith # NoProvider => session[f].typeWith = session[f].chosen
        /\ session[f].attachWith # NoProvider => session[f].attachWith = session[f].chosen

\* C3: when the attach made by startDebugging does not succeed, the
\* forwarding subprocess is killed, both session listeners are removed and
\* startDebug rejects.
C3_AttachFailureCleansUp ==
    \A f \in Flows :
        session[f].attachOk = "false" =>
            /\ session[f].proc \in {"killed", "closed"}
            /\ session[f].listeners = {}
            /\ session[f].promise = "rejected"

\* Port resolution from the Dockerfile has returned in launch flow f.
PortsResolved(f) ==
    /\ Launch(f)
    /\ session[f].resolver # NoProvider
    /\ session[f].pc # "resolvePortsFromFile"

\* C4: a launch whose resolved ports have the debug port set and the
\* application port unset goes on to build (and then deploy and forward the
\* debug port only); it does not stop with an error about the application
\* port.
C4_AppPortOptional ==
    \A f \in Flows :
        PortsResolved(f) /\ ~Falsy(session[f].portInfo.debug)
                         /\ Falsy(session[f].portInfo.app) =>
            /\ "appPort" \notin session[f].errors
            /\ "build" \in session[f].issued

IsPositiveInteger(str) ==
    /\ str # <<>>
    /\ AllDigits(str)
    /\ \E i \in 1..Len(str) : str[i] # "0"

\* C6: a launch whose resolved application port is set but is not the text
\* of a positive integer ends with an error shown to the user before anything
\* is built.
C6_AppPortValidated ==
    \A f \in Flows :
        PortsResolved(f) /\ ~Falsy(session[f].portInfo.debug)
                         /\ ~Falsy(session[f].portInfo.app)
                         /\ ~IsPositiveInteger(session[f].portInfo.app) =>
            /\ session[f].pc = "done"
            /\ "appPort" \in session[f].errors
            /\ session[f].issued = {}

\* C7: whatever stdout chunks the forwarding subprocess emits, the session
\* listeners are registered and provider.startDebugging is called exactly once,
\* on the first chunk that matches the ready pattern, and never before or
\* again.
C7_AttachOnce ==
    \A f \in Flows :
        /\ session[f].attachCalls <= 1
        /\ session[f].listenerRegs <= 1
        /\ session[f].ready <=> session[f].attachCalls = 1
        /\ session[f].ready <=> session[f].listenerRegs = 1

\* C8: after the attach, a terminate event named as the session kills the
\* forwarding subprocess and removes both listeners; an event of either kind
\* with another name changes nothing of the session; and once the listeners
\* are removed no event changes anything of it.
C8_TerminateEndsSession ==
    [][\A name \in EventNames :
          /\ HostTerminate(name) =>
                \A f \in Flows :
                    LET s == session[f]
                        t == session'[f]
                    IN  IF s.attachCalls = 1 /\ s.listeners # {} /\ s.sessionName = name
                        THEN /\ t.proc # "running"
                             /\ t.listeners = {}
                             /\ t.browserOpens = s.browserOpens
                        ELSE s.attachCalls = 1 => t = s
          /\ HostStart(name) =>
                \A f \in Flows :
                    session[f].attachCalls = 1
                        /\ (session[f].sessionName # name \/ session[f].listeners = {})
                    => session'[f] = session[f]
      ]_vars

C8_Witness ==
    \E f \in Flows :
        /\ session[f].attachCalls = 1
        /\ session[f].listenerRegs = 1
        /\ session[f].listeners = {}
        /\ session[f].proc = "killed"
        /\ \E g \in Flows \ {f} :
              /\ session[g].attachCalls = 1
              /\ session[g].sessionName # session[f].sessionName
              /\ session[g].listeners = {"start", "terminate"}
              /\ session[g].proc = "running"

\* C9: once the forwarding subprocess of a launch session has closed, for
\* whatever reason, the session is ended (the startDebug promise is settled,
\* no later chunk is taken for the ready signal, the flow is over) and the
\* delete command for deployment/<deployed name> has been issued.
C9_CloseDeletes ==
    \A f \in Flows :
        Launch(f) /\ session[f].proc = "closed" =>
            /\ session[f].pc = "done"
            /\ session[f].handlers =>
                  session[f].isStarted /\ session[f].promise # "pending"
            /\ Deployed(f)
            /\ "delete" \in session[f].issued
            /\ session[f].deleted = {session[f].appName}

C9_Witness ==
    \E f \in Flows :
        /\ Launch(f)
        /\ session[f].handlers
        /\ ~session[f].ready
        /\ session[f].proc = "closed"
        /\ ~session[f].caught
        /\ session[f].deleted = {session[f].appName}

\* A failure after the deployment: the catch block ran, or the attach did
\* not succeed.
FailedAfterDeploy(f) ==
    Deployed(f) /\ (session[f].caught \/ session[f].attachOk = "false")

\* C10: a launch flow that is over and failed after creating its deployment
\* (no pod, pod not running, port-forward not created, attach not succeeding)
\* has issued the delete of that deployment; one that failed before creating
\* it has issued no delete.
C10_FailureDeletes ==
    \A f \in Flows :
        Launch(f) /\ session[f].pc \in {"done", "threw"} =>
            /\ FailedAfterDeploy(f) =>
                  /\ session[f].deleteCount >= 1
                  /\ session[f].appName \in session[f].deleted
            /\ ~Deployed(f) => session[f].deleteCount = 0

\* C11: no flow ends with an error raised to its caller: whatever the exit
\* codes of the external commands and whatever text the cluster queries
\* return (malformed JSON included), launchDebug and attachDebug complete
\* normally and only the flow itself ends.
C11_NothingEscapes ==
    \A f \in Flows : session[f].pc # "threw"

\* C12: cleanup can be repeated: each call of deleteResource for a deployed
\* name, the calls that fail because the resource is gone included, returns
\* normally; it records the issued delete and changes nothing else of the
\* calling session, nothing of any other session, and removes from the
\* cluster at most the named deployment.
C12_CleanupRepeatable ==
    [][\A f \in Flows :
          Cleanup(f) =>
              /\ session'[f] = [session[f] EXCEPT
                                   !.issued = @ \cup {"delete"},
                                   !.deleteCount = @ + 1,
                                   !.deleted = @ \cup {session[f].appName}]
              /\ session'[f].pc # "threw"
              /\ \A g \in Flows \ {f} : session'[g] = session[g]
              /\ cluster' = cluster \ {session[f].appName}
              /\ session[f].appName \notin cluster => cluster' = cluster
      ]_vars

C12_Witness ==
    \E f \in Flows :
        /\ session[f].deleteCount = 2
        /\ session[f].appName \notin cluster
        /\ session[f].pc = "findPods"
        /\ \E g \in Flows \ {f} :
              session[g].appName = session[f].appName /\ session[g].deleteCount = 0

WaitingStatuses == {"ContainerCreating", "Pending", "Succeeded"}

\* C13: the readiness poll acts on the status it reads: a failed status query
\* fails the flow; "Running" returns and lets the port-forward be created;
\* "ContainerCreating", "Pending" and "Succeeded" sleep and poll again; any
\* other status queries the logs, reports the status and fails the flow.  The
\* port-forward is spawned only after the poll returned on "Running".
C13_PollByStatus ==
    [][\A f \in Flows :
          LET s == session[f]
              t == session'[f]
          IN  /\ \A code \in {0, 1}, status \in Statuses :
                    PodStatus(f, code, status) =>
                        IF code # 0
                        THEN /\ t.pc = "done" /\ t.caught
                             /\ "podStatus" \in t.errors
                             /\ "logs" \notin t.issued /\ "portForward" \notin t.issued
                        ELSE IF status = "Running"
                        THEN /\ t.pc = "createPortForward" /\ ~t.caught
                             /\ t.errors = s.errors /\ t.issued = s.issued
                        ELSE IF status \in WaitingStatuses
                        THEN /\ t.pc = "sleep" /\ ~t.caught
                             /\ t.errors = s.errors /\ t.issued = s.issued
                        ELSE /\ t.pc = "logs" /\ ~t.caught
                             /\ "wrongStatus" \in t.errors
                             /\ t.issued = s.issued \cup {"logs"}
              /\ PollAgain(f) => t.pc = "waitForRunningPod" /\ "getPod" \in t.issued
              /\ LogsResult(f) =>
                    t.pc = "done" /\ t.caught /\ "portForward" \notin t.issued
              /\ Launch(f) /\ "portForward" \in t.issued /\ "portForward" \notin s.issued =>
                    s.pc = "createPortForward"
              /\ Launch(f) /\ t.pc = "createPortForward" /\ s.pc # "createPortForward" =>
                    PodStatus(f, 0, "Running")
      ]_vars

C13_Witness ==
    \E f \in Flows :
        /\ Launch(f)
        /\ "getPod" \in session[f].issued
        /\ "portForward" \in session[f].issued
        /\ session[f].proc = "running"
        /\ ~session[f].caught

\* The launch flow is inside waitForRunningPod.
Polling(f) == Launch(f) /\ session[f].pc \in {"waitForRunningPod", "sleep"}

\* C14: the readiness poll ends only on a failed status query or a status
\* outside ContainerCreating/Pending/Succeeded, and it does end on each of
\* those; on the three waiting statuses it comes back, after the sleep, to the
\* very state it polled from, always able to poll again, so the number of
\* attempts has no bound; while it polls the flow has spawned no port-forward,
\* attached nothing and cleaned up nothing.
C14_PollUnbounded ==
    /\ [](\A f \in Flows :
             Polling(f) =>
                 /\ session[f].proc = "none"
                 /\ session[f].attachCalls = 0
                 /\ session[f].deleteCount = 0
                 /\ ~session[f].caught
                 /\ "portForward" \notin session[f].issued
                 /\ session[f].pc = "sleep" => ENABLED PollAgain(f)
                 /\ session[f].pc = "waitForRunningPod" =>
                       \A status \in WaitingStatuses : ENABLED PodStatus(f, 0, status))
    /\ [][\A f \in Flows :
             Polling(f) =>
                 /\ \/ Polling(f)'
                    \/ \E code \in {0, 1}, status \in Statuses :
                          /\ PodStatus(f, code, status)
                          /\ code # 0 \/ status \notin WaitingStatuses
                 /\ \A code \in {0, 1}, status \in Statuses :
                       PodStatus(f, code, status)
                           /\ (code # 0 \/ status \notin WaitingStatuses)
                       => ~Polling(f)'
                 /\ \A status \in WaitingStatuses :
                       PodStatus(f, 0, status) =>
                           session'[f] = [session[f] EXCEPT !.pc = "sleep"]
                 /\ PollAgain(f) =>
                       session'[f] = [session[f] EXCEPT !.pc = "waitForRunningPod"]
         ]_vars

C14_Witness ==
    \E f \in Flows :
        /\ Polling(f)
        /\ session[f].pc = "sleep"
        /\ session[f].appName \in cluster
        /\ session[f].issued = {"build", "run", "getPodsByLabel", "getPod"}

\* C15: in every session that has spawned its port-forward, the local port
\* forwarding the application port and the local port forwarding the debug
\* port differ, whatever free ports the port finder returned; the local debug
\* port is never 0, the value the application port has when none is forwarded.
C15_LocalPortsDiffer ==
    \A f \in Flows :
        session[f].proc # "none" =>
            /\ session[f].proxyDebugPort # session[f].proxyAppPort
            /\ session[f].proxyDebugPort # 0
            /\ session[f].proxyDebugPort \in LocalPorts
            /\ session[f].proxyAppPort \in LocalPorts \cup {0}
            /\ session[f].proxyAppPort = 0 <=>
                  (session[f].mode = "attach" \/ Falsy(session[f].portInfo.app))

C15_Witness ==
    /\ \E f \in Flows :
          /\ Launch(f)
          /\ session[f].proc = "running"
          /\ session[f].proxyAppPort = 1
          /\ session[f].proxyDebugPort = 2
    /\ \E f \in Flows :
          /\ session[f].mode = "attach"
          /\ session[f].proc = "running"
          /\ session[f].proxyAppPort = 0
          /\ session[f].proxyDebugPort = 1

\* C16: an attach flow issues no build, push, run, pod-status poll or delete
\* command: besides the queries that select its target it only spawns the
\* port-forward and attaches; it deploys nothing, and the close of its
\* forwarding subprocess deletes nothing.
C16_AttachCreatesNothing ==
    \A f \in Flows :
        session[f].mode = "attach" =>
            /\ session[f].issued \subseteq {"getPodJson", "getPodsJson", "exec", "portForward"}
            /\ session[f].deleteCount = 0
            /\ session[f].deleted = {}
            /\ session[f].appName = NoName
            /\ session[f].deploymentName = NoName
            /\ session[f].attachCalls > 0 => "portForward" \in session[f].issued

C16_Witness ==
    \E f \in Flows :
        /\ session[f].mode = "attach"
        /\ session[f].attachCalls = 1
        /\ session[f].proc = "closed"
        /\ session[f].isStarted
        /\ session[f].issued = {"getPodsJson", "exec", "portForward"}
        /\ cluster # {}

\* C17: a build command that exits non-zero fails the launch flow, and so
\* does a push command that exits non-zero: no run command is issued, no
\* port-forward is spawned and nothing is attached.  The push is issued only
\* after a build that exited with 0 and only when a registry user is
\* configured, and then always.
C17_BuildPushFailuresStop ==
    /\ [][\A f \in Flows : \A code \in {0, 1}, t \in Times :
             LET s == session[f]
                 u == session'[f]
             IN  /\ BuildDone(f, code, t) =>
                       IF code # 0
                       THEN /\ u.pc = "done" /\ u.caught /\ "build" \in u.errors
                            /\ u.issued = s.issued
                       ELSE IF workspace.imageUser
                       THEN u.pc = "push" /\ u.issued = s.issued \cup {"push"}
                       ELSE u.pc = "run" /\ u.issued = s.issued \cup {"run"}
                 /\ PushDone(f, code, t) =>
                       IF code # 0
                       THEN /\ u.pc = "done" /\ u.caught /\ "push" \in u.errors
                            /\ u.issued = s.issued
                       ELSE u.pc = "run" /\ u.issued = s.issued \cup {"run"}
         ]_vars
    /\ [](\A f \in Flows :
             /\ "build" \in session[f].errors \/ "push" \in session[f].errors =>
                   /\ session[f].pc = "done"
                   /\ session[f].issued \subseteq {"build", "push"}
                   /\ session[f].proc = "none"
                   /\ session[f].attachCalls = 0
                   /\ session[f].appName = NoName
             /\ "push" \in session[f].issued =>
                   /\ workspace.imageUser
                   /\ "build" \in session[f].issued
                   /\ "build" \notin session[f].errors
             /\ "run" \in session[f].issued /\ workspace.imageUser =>
                   "push" \in session[f].issued)

C17_Witness ==
    \E f \in Flows :
        /\ Launch(f)
        /\ workspace.imageUser
        /\ session[f].errors = {"push"}
        /\ session[f].issued = {"build", "push"}
        /\ session[f].pc = "done"

\* C18: when file-based resolution prompts for the application port and the
\* user selects a plain port, that port is the resolved appPort, for the Node
\* and the Java strategy alike.
C18_PickedPortReturned ==
    \A f \in Flows :
        PortsResolved(f) /\ session[f].appPrompt # <<>>
                         /\ ~Falsy(session[f].appPick)
                         /\ ~IsPlaceholder(session[f].appPick) =>
            session[f].portInfo.app = session[f].appPick

\* The known debug-port values of a strategy: its default debug ports and the
\* debug port just resolved.
KnownDebugPorts(strategy, debug) ==
    (IF strategy = "java" THEN {P5005} ELSE {P9229, P5858}) \cup {debug}

\* C19: with a debug port resolved and exactly one exposed port left after
\* removing the known debug ports, that port is appPort and no prompt is
\* shown; with none left, with no exposed port, or with debugPort unset,
\* appPort stays unset and no prompt is shown.
C19_SingleCandidateNoPrompt ==
    \A f \in Flows :
        PortsResolved(f) =>
            LET debug == session[f].portInfo.debug
                left == Without(getExposedPorts(session[f].resFile),
                                KnownDebugPorts(session[f].resolver, debug))
            IN  /\ ~Falsy(debug) /\ Len(left) = 1 =>
                      session[f].portInfo.app = left[1] /\ session[f].appPrompt = <<>>
                /\ Falsy(debug) \/ Len(left) = 0 =>
                      Falsy(session[f].portInfo.app) /\ session[f].appPrompt = <<>>

\* C20: getDebugProvider returns, when a base image is supplied and some
\* registered provider supports it, the first such provider in registration
\* order (java, then node) without prompting; otherwise it prompts among the
\* registered providers and returns the user's pick, or none on cancel.
C20_ProviderSelection ==
    \A f \in Flows :
        session[f].providerPrompt # "pending" =>
            LET supplied == session[f].mode = "launch"
                image == getBaseImage(session[f].file)
                javaOk == supplied /\ {"java", "openjdk", "oracle"} \cap image # {}
                nodeOk == supplied /\ "node" \in image
            IN  IF javaOk
                THEN session[f].chosen = "java" /\ session[f].providerPrompt = "skipped"
                ELSE IF nodeOk
                THEN session[f].chosen = "node" /\ session[f].providerPrompt = "skipped"
                ELSE /\ session[f].providerPrompt = "shown"
                     /\ session[f].chosen = session[f].providerPick
                     /\ session[f].providerPick \in {"java", "node", NoProvider}

C20_Witness ==
    \E f \in Flows :
        /\ Launch(f)
        /\ getBaseImage(session[f].file) = ImgBoth
        /\ session[f].providerPrompt = "skipped"
        /\ session[f].chosen = "java"
        /\ session[f].resolver = "java"

\* The text after the last ":" of an address (the whole of it without one).
AfterLastColon(a) ==
    LET cs == {i \in 1..Len(a) : a[i] = ":"}
    IN  IF cs = {} THEN a
        ELSE SubSeq(a, (CHOOSE i \in cs : \A j \in cs : j <= i) + 1, Len(a))

\* The address the launch instructions of Dockerfile d give the debug flag of
\* this strategy, or nothing.
ExplicitAddress(strategy, d) ==
    IF strategy = "java" /\ d.launch.flag = "jdwp" THEN d.launch.addr
    ELSE IF strategy = "node" /\ d.launch.flag \in {"inspect", "debug"}
                              /\ ~Falsy(d.launch.addr)
    THEN Tail(d.launch.addr)
    ELSE Null

\* C21: for both strategies, when the launch instructions hold the runtime's
\* debug flag with an explicit address, the resolved debug port is the last
\* colon-delimited segment of that address, whether the address is a port
\* only, host:port or has more segments.
C21_LastSegment ==
    \A f \in Flows :
        PortsResolved(f)
            /\ ~Falsy(ExplicitAddress(session[f].resolver, session[f].resFile)) =>
            session[f].portInfo.debug =
                AfterLastColon(ExplicitAddress(session[f].resolver, session[f].resFile))

\* A launch has resolved the port of an address of three segments and went on
\* to build.
C21_Witness ==
    \E f \in Flows :
        /\ PortsResolved(f)
        /\ session[f].resFile.launch \in {LJdwpLong, LInspectLong}
        /\ session[f].resolver =
               (IF session[f].resFile.launch = LJdwpLong THEN "java" ELSE "node")
        /\ session[f].portInfo.debug = P8000
        /\ "build" \in session[f].issued

\* The default debug port of a node flag variant.
NodeDefaultPort(flag) == IF flag = "inspect" THEN P9229 ELSE P5858

\* C22: for the Node strategy a matched debug flag without an address
\* resolves the debug port to the default of the flag variant, 9229 for
\* inspect and 5858 for debug, from the Dockerfile and from the process list
\* of a pod alike; with no match in the Dockerfile the debug port stays unset.
C22_NodeDefaults ==
    /\ [](\A f \in Flows :
            PortsResolved(f) /\ session[f].resolver = "node" =>
                LET l == session[f].resFile.launch
                IN  /\ l.flag \in {"inspect", "debug"} /\ Falsy(l.addr) =>
                           session[f].portInfo.debug = NodeDefaultPort(l.flag)
                    /\ l.flag \notin {"inspect", "debug"} =>
                           Falsy(session[f].portInfo.debug))
    /\ [][\A f \in Flows, ps \in Listings, flag \in {"inspect", "debug"} :
            /\ session[f].resolver = "node"
            /\ Len(ps) >= 2
            /\ ps[2] = NodeLine(flag, Null)
            /\ AttachExec(f, 0, ps)
            => /\ session'[f].portInfo.debug = NodeDefaultPort(flag)
               /\ session'[f].pc = "createPortForward"]_vars

\* An attach flow forwards port 5858, which only the bare debug flag of a
\* node process gives.
C22_Witness ==
    \E f \in Flows :
        /\ session[f].mode = "attach"
        /\ session[f].resolver = "node"
        /\ session[f].portInfo.debug = P5858
        /\ "portForward" \in session[f].issued

\* The characters of an input other than spaces (the inputs considered have
\* spaces around the port only).
WithoutSpaces(input) ==
    LET NotSpace(c) == c # " "
    IN  SelectSeq(input, NotSpace)

\* No process line of this output has the header's columns and a command that
\* matches the strategy's full pattern.
NoLineMatches(strategy, ps) ==
    \A i \in 2..Len(ps) :
        \/ Len(Columns(ps[i])) < Len(Columns(ps[1]))
        \/ ~FullMatch(strategy, CommandOf(Columns(ps[i]), Len(Columns(ps[1])))).matched

\* The attach flow has ended without a port-forward, a debugger or a message.
EndedSilently(s) ==
    /\ s.pc = "done"
    /\ "portForward" \notin s.issued
    /\ s.proc = "none"
    /\ s.attachCalls = 0
    /\ s.errors = {}
    /\ ~s.caught

\* C23: in live-process resolution, when the exec command fails or no process
\* line matches, the user is asked for the debug port; the debug port is the
\* entered value without the surrounding white space; when the user cancels
\* or enters nothing the debug port stays unset and attachDebug ends without
\* a port-forward, a debugger or a message.
C23_PromptForPort ==
    /\ [][\A f \in Flows, code \in {0, 1}, ps \in Listings :
            /\ AttachExec(f, code, ps)
            /\ (code # 0 \/ NoLineMatches(session[f].resolver, ps))
            => /\ session'[f].pc = "showInputBox"
               /\ Falsy(session'[f].portInfo.debug)
               /\ "portForward" \notin session'[f].issued]_vars
    /\ [][\A f \in Flows, input \in PortInputs :
            AttachPort(f, input) =>
                /\ session'[f].portInfo.debug = WithoutSpaces(input)
                /\ IF Falsy(WithoutSpaces(input))
                   THEN EndedSilently(session'[f])
                   ELSE session'[f].pc = "createPortForward"]_vars
    /\ [](\A f \in Flows :
            session[f].mode = "attach" /\ Falsy(session[f].portInfo.debug) =>
                /\ "portForward" \notin session[f].issued
                /\ session[f].proc = "none"
                /\ session[f].attachCalls = 0)

\* The exec command was issued, the prompt was answered with nothing, and the
\* attach flow has ended.
C23_Witness ==
    \E f \in Flows :
        /\ session[f].mode = "attach"
        /\ "exec" \in session[f].issued
        /\ Falsy(session[f].portInfo.debug)
        /\ EndedSilently(session[f])

\* Flow f issues this command in the step.
Issues(f, cmd) == cmd \notin session[f].issued /\ cmd \in session'[f].issued

\* C24: in every launch flow the steps are strictly ordered.  The push is
\* issued only when the build returned 0, the run command only when the build
\* (without a registry user) or the push (with one) returned 0, the pod query
\* only when the run command returned 0, the port-forward is spawned only
\* after the pod status was read as Running, and startDebugging is called
\* only on a readiness line of the forwarding subprocess.
C24_StepsOrdered ==
    /\ [][\A f \in Flows : Launch(f) =>
            /\ Issues(f, "push") =>
                   workspace.imageUser /\ \E t \in Times : BuildDone(f, 0, t)
            /\ Issues(f, "run") =>
                   \E t \in Times :
                       \/ ~workspace.imageUser /\ BuildDone(f, 0, t)
                       \/ "push" \in session[f].issued /\ PushDone(f, 0, t)
            /\ Issues(f, "getPodsByLabel") => RunDone(f, 0)
            /\ (session[f].pc # "createPortForward"
                    /\ session'[f].pc = "createPortForward") =>
                   PodStatus(f, 0, "Running")
            /\ Issues(f, "portForward") => session[f].pc = "createPortForward"
            /\ session'[f].attachCalls > session[f].attachCalls =>
                   /\ session[f].proc = "running"
                   /\ ~session[f].ready
                   /\ session'[f].ready]_vars
    /\ [](\A f \in Flows : Launch(f) =>
            /\ "push" \in session[f].issued => "build" \in session[f].issued
            /\ "run" \in session[f].issued =>
                   /\ "build" \in session[f].issued
                   /\ workspace.imageUser => "push" \in session[f].issued
            /\ "getPodsByLabel" \in session[f].issued => "run" \in session[f].issued
            /\ "portForward" \in session[f].issued =>
                   {"getPodsByLabel", "getPod"} \subseteq session[f].issued
            /\ session[f].attachCalls > 0 =>
                   "portForward" \in session[f].issued /\ session[f].ready)

\* A launch went through every step: built, pushed, deployed, found the pod
\* running, forwarded and called startDebugging.
C24_Witness ==
    \E f \in Flows :
        /\ Launch(f)
        /\ {"build", "push", "run", "getPodsByLabel", "getPod", "portForward"}
               \subseteq session[f].issued
        /\ session[f].ready
        /\ session[f].attachCalls = 1

\* C25: for both strategies the application-port candidates are the exposed
\* ports without the strategy's default debug ports and without the debug
\* port just resolved: an exposed port equal to a default debug port (9229 and
\* 5858 for Node, 5005 for Java) is never offered in the pick and never
\* chosen as the application port, also when the resolved debug port is
\* another one.
C25_DefaultDebugPortsExcluded ==
    \A f \in Flows :
        PortsResolved(f) /\ ~Falsy(session[f].portInfo.debug) =>
            LET known == KnownDebugPorts(session[f].resolver, session[f].portInfo.debug)
            IN  /\ SeqRange(session[f].appPrompt) \cap known = {}
                /\ session[f].portInfo.app \notin known

\* C26: for the Java strategy, when no jdwp flag matches but the launch
\* instructions reference the JAVA_OPTS placeholder, the debug port is 5005
\* and JAVA_OPTS = the default jdwp options is recorded in the caller's
\* environment map; when the jdwp flag matches JAVA_OPTS is not recorded; and
\* the run command of the launch carries one --env override per entry of the
\* map.
C26_JavaOptsInjected ==
    \A f \in Flows :
        /\ PortsResolved(f) /\ session[f].resolver = "java" =>
              LET l == session[f].resFile.launch
              IN  /\ l.flag # "jdwp" /\ l.javaOpts =>
                      /\ session[f].portInfo.debug = P5005
                      /\ <<JavaOptsKey, defaultJavaDebugOpts>> \in session[f].containerEnv
                  /\ l.flag = "jdwp" =>
                      \A e \in session[f].containerEnv : e[1] # JavaOptsKey
        /\ Launch(f) /\ "run" \in session[f].issued =>
              /\ \A e \in session[f].containerEnv :
                     <<"--env", e[1], e[2]>> \in session[f].runEnv
              /\ \A a \in session[f].runEnv :
                     a[1] = "--env" /\ <<a[2], a[3]>> \in session[f].containerEnv

\* A Java launch on JAVA_OPTS has issued the run command with the override.
C26_Witness ==
    \E f \in Flows :
        /\ Launch(f)
        /\ session[f].resolver = "java"
        /\ session[f].resFile.launch = LJavaOpts
        /\ "run" \in session[f].issued
        /\ <<"--env", JavaOptsKey, defaultJavaDebugOpts>> \in session[f].runEnv

\* The process lines of an output that have the header's columns and whose
\* command, the columns from the header's last one on, matches the full
\* pattern of the strategy.
MatchingLines(strategy, ps) ==
    {i \in 2..Len(ps) :
        /\ Len(Columns(ps[i])) >= Len(Columns(ps[1]))
        /\ FullMatch(strategy,
                     SubSeq(Columns(ps[i]), Len(Columns(ps[1])), Len(Columns(ps[i])))).matched}

\* The port the full pattern gives for process line i of an output.
PortOfLine(strategy, ps, i) ==
    FullMatch(strategy,
              SubSeq(Columns(ps[i]), Len(Columns(ps[1])), Len(Columns(ps[i])))).port

\* C27: live-process resolution scans the process lines after the header in
\* order, skips every line with fewer columns than the header without
\* throwing, takes the command as the columns from the header's last column
\* on, and stops at the first line whose command matches the full pattern:
\* the debug port is that of the first matching line, later matching lines do
\* not override it, and without a matching line the port is asked for.
C27_FirstMatchWins ==
    [][\A f \in Flows, ps \in Listings :
          AttachExec(f, 0, ps) =>
              LET hits == MatchingLines(session[f].resolver, ps)
              IN  IF hits = {}
                  THEN session'[f].pc = "showInputBox"
                  ELSE /\ session'[f].pc = "createPortForward"
                       /\ session'[f].portInfo.debug =
                              PortOfLine(session[f].resolver, ps,
                                         CHOOSE i \in hits : \A j \in hits : i <= j)]_vars

\* An attach flow with the Java strategy forwards port 8000: the port of the
\* first of two matching lines of an output.
C27_Witness ==
    \E f \in Flows :
        /\ session[f].mode = "attach"
        /\ session[f].resolver = "java"
        /\ session[f].portInfo.debug = P8000
        /\ MatchingLines("java", <<Header, JavaLine(P8000), JavaLine(P5005)>>) = {2, 3}
        /\ "portForward" \in session[f].issued

\* C28: in attach mode the process listing is executed inside the selected
\* container: the exec command issued by resolvePortsFromPod carries -c and
\* the name of the container the flow selected, and no -c argument when no
\* container was selected.
C28_ExecInSelectedContainer ==
    \A f \in Flows :
        session[f].pc = "resolvePortsFromPod" =>
            /\ "exec" \in session[f].issued
            /\ session[f].execArgs =
                   (IF session[f].targetContainer # NoContainer
                    THEN <<"-c", session[f].targetContainer>>
                    ELSE <<>>)

\* The forwarding subprocess of flow f has closed and no readiness line was
\* seen on its stdout.
ClosedBeforeReady(f) ==
    /\ session[f].handlers
    /\ session[f].proc = "closed"
    /\ ~session[f].ready

\* C29: if the forwarding subprocess closes before any readiness line was
\* seen, the debugger is never attached for the session: the close handler
\* marks the session as started, startDebugging is never called, no lifecycle
\* listener is registered, and the startDebug step completes normally: its
\* promise is resolved and the flow's failure handler does not run.
C29_CloseBeforeReady ==
    /\ [](\A f \in Flows :
            ClosedBeforeReady(f) =>
                /\ session[f].isStarted
                /\ session[f].attachCalls = 0
                /\ session[f].listenerRegs = 0
                /\ session[f].listeners = {}
                /\ session[f].promise = "resolved"
                /\ session[f].pc = "done"
                /\ ~session[f].caught)
    /\ [][\A f \in Flows :
            ClosedBeforeReady(f) =>
                /\ session'[f].attachCalls = 0
                /\ session'[f].listenerRegs = 0
                /\ session'[f].promise = "resolved"]_vars

\* A session whose forwarding subprocess was spawned and closed before it was
\* ready.
C29_Witness ==
    \E f \in Flows :
        /\ ClosedBeforeReady(f)
        /\ "portForward" \in session[f].issued
        /\ session[f].promise = "resolved"
        /\ session[f].pc = "done"

\* C30: once a session has ended none of its lifecycle listeners remains
\* registered: after the forwarding subprocess of an attached session has
\* closed, whether killed on debugger terminate or exited on its own, the
\* session's start and terminate listeners have been disposed.
C30_ListenersDisposed ==
    \A f \in Flows :
        session[f].proc = "closed" /\ session[f].attachCalls > 0 =>
            session[f].listeners = {}

\* The variable name of a placeholder token such as ${P}: its characters
\* without the "$" and the braces.
VariableName(token) ==
    LET Named(c) == c \notin {"$", "{", "}"}
    IN  SelectSeq(token, Named)

\* Resolution in flow f found no jdwp flag and a reference to JAVA_OPTS, with
\* the Java strategy.
JavaOptsCase(f) ==
    /\ session[f].resolver = "java"
    /\ session[f].resFile.launch.flag # "jdwp"
    /\ session[f].resFile.launch.javaOpts

\* The user picked a placeholder token among several candidates in flow f.
PlaceholderPicked(f) ==
    /\ session[f].appPrompt # <<>>
    /\ ~Falsy(session[f].appPick)
    /\ Head(session[f].appPick) = "$"

\* C31: resolvePortsFromFile changes the caller's environment map in two
\* cases only: with the Java strategy, no debug flag matched and JAVA_OPTS is
\* referenced, which sets JAVA_OPTS; and the user picked a placeholder token
\* among several application-port candidates, which sets the placeholder's
\* variable name to 9000 and returns 9000 as the application port.  In every
\* other case (cancel, a plain port picked, a single remaining candidate that
\* is a placeholder) the map is as the caller passed it: empty.
C31_EnvChangedInTwoCasesOnly ==
    \A f \in Flows :
        PortsResolved(f) =>
            /\ session[f].containerEnv =
                   (IF JavaOptsCase(f)
                    THEN {<<JavaOptsKey, defaultJavaDebugOpts>>} ELSE {})
                   \cup (IF PlaceholderPicked(f)
                         THEN {<<VariableName(session[f].appPick), P9000>>} ELSE {})
            /\ PlaceholderPicked(f) => session[f].portInfo.app = P9000

\* A Java launch on JAVA_OPTS in which the user picked ${P}: both entries are
\* in the map and the launch went on to build.
C31_Witness ==
    \E f \in Flows :
        /\ PortsResolved(f)
        /\ JavaOptsCase(f)
        /\ PlaceholderPicked(f)
        /\ Cardinality(session[f].containerEnv) = 2
        /\ "build" \in session[f].issued

====
